---- MODULE Spec2Model ----
(***************************************************************************)
(* A model of the succinct rank/select library: BitVector, RankSupport,    *)
(* SelectSupport (bitvector.h) and SparseArray<uint64_t> (sparsearray.h),  *)
(* with the byte-level file formats written by save and read by load.      *)
(*                                                                         *)
(* Vectors are 0-indexed in the code and 1-indexed here: v[k] of the code  *)
(* is v[k + 1] of the model.  A 32-bit word is a sequence of 32 bits, the  *)
(* least significant first.                                                *)
(***************************************************************************)
EXTENDS Integers, Sequences, FiniteSets, TLC

VARIABLES
    str,         \* SpecBV: the binary string the BitVector was built from;
                 \* SpecBits: the same, and <<>> once set was called
    bitvector_,  \* the BitVector: [size, data]
    rank_,       \* the RankSupport over bitvector_
    values_,     \* SparseArray::values_
    file,        \* the bytes of the file written by the last save (<<>>: none)
    phase,       \* "bits": a BitVector on its own (SpecBits);
                 \* "bv": a BitVector without a RankSupport; "new": a
                 \* default-constructed SparseArray; "ok": RankSupport built,
                 \* or array created or loaded; "fpe": the process died on an
                 \* integer division by zero
    op,          \* the last operation and what it returned
    log,         \* history: the size passed to the last create and the
                 \* <<pos, elem>> of the successful appends since, in call order
    saved        \* history: the object state when file was written

vars == <<str, bitvector_, rank_, values_, file, phase, op, log, saved>>

----------------------------------------------------------------------------
(* Bounds of the model *)

MaxLen == 9        \* longest binary string a BitVector is built from
MaxSize == 4       \* largest size passed to SparseArray::create
MaxElems == 2      \* appends are explored while numElem() < MaxElems
LongLen == 40      \* length of the one long vector, which is only read
MaxItems == 2      \* most items of a std::vector that is serialized
MaxBits == 1100    \* longest vector the block sizes are computed for

\* the elements appended: one that fits a byte and one that does not
Elems == {1, 258}
\* what the caller's out-parameter holds before a getter is called
OutParams == {0, 1}

(* Program constants *)

SizeofT == 8           \* sizeof(uint64_t), the element type of the tests
SizeofSizeT == 8       \* sizeof(std::vector::size_type)
SizeofU32 == 4         \* sizeof(uint32_t)
DefaultSize == 8       \* SparseArray() : bitvector_(8)
WordBits == 32         \* the width of the word popcount(start, len) loads

RankMagic == <<239, 190, 237, 254>>     \* 0xfeedbeef, little-endian
SparseMagic == <<239, 190, 173, 222>>   \* 0xdeadbeef, little-endian

(* The bytes a 32-bit load can find past the end of the backing buffer *)
Junk == {<<0, 0, 0>>, <<255, 255, 255>>, <<1, 128, 85>>}

----------------------------------------------------------------------------
(* Machine arithmetic *)

\* 1 << k, for a bit index k within a byte
Pow2(k) == <<1, 2, 4, 8, 16, 32, 64, 128>>[k + 1]

\* Unsigned division.  Division by zero is undefined: the build either traps
\* (x86: SIGFPE, modelled by phase = "fpe" where the divisor is computed) or
\* yields quotient 0 and remainder a (AArch64 udiv/msub), which is what udiv
\* and urem return.
udiv(a, b) == IF b = 0 THEN 0 ELSE a \div b
urem(a, b) == IF b = 0 THEN a ELSE a % b

RECURSIVE BitOr(_, _)
BitOr(a, b) ==
    IF a = 0 THEN b
    ELSE IF b = 0 THEN a
    ELSE (IF a % 2 = 1 \/ b % 2 = 1 THEN 1 ELSE 0) + 2 * BitOr(a \div 2, b \div 2)

roundDivisionUp(num, den) ==
    udiv(num, den) + (IF urem(num, den) = 0 THEN 0 ELSE 1)

\* num >= 1
roundUpToPowerOf2(num) ==
    LET n0 == num - 1
        n1 == BitOr(n0, n0 \div 2)
        n2 == BitOr(n1, n1 \div 4)
        n3 == BitOr(n2, n2 \div 16)
        n4 == BitOr(n3, n3 \div 256)
        n5 == BitOr(n4, n4 \div 65536)
    IN  n5 + 1

\* std::log2 of a power of two (exact in floating point)
RECURSIVE log2(_)
log2(N) == IF N <= 1 THEN 0 ELSE 1 + log2(N \div 2)

----------------------------------------------------------------------------
(* BitVector *)

BitVector(size) ==
    [size |-> size, data |-> [k \in 1..roundDivisionUp(size, 8) |-> 0]]

Reverse(s) == [k \in 1..Len(s) |-> s[Len(s) + 1 - k]]

\* std::string::substr(pos, len): at most len characters from pos
substr(s, pos, len) ==
    SubSeq(s, pos + 1, IF pos + len < Len(s) THEN pos + len ELSE Len(s))

\* std::stoul(s, nullptr, 2) on a string of '0' and '1'
RECURSIVE stoul2(_)
stoul2(s) ==
    IF s = <<>> THEN 0
    ELSE 2 * stoul2(SubSeq(s, 1, Len(s) - 1)) + (IF s[Len(s)] = "1" THEN 1 ELSE 0)

\* Fault: the constructor without std::reverse
BitVectorFromStringNoReverse(value) ==
    [size |-> Len(value),
     data |-> [k \in 1..roundDivisionUp(Len(value), 8) |->
                  stoul2(substr(value, 8 * (k - 1), 8))]]

BitVectorFromString(value) ==
    [size |-> Len(value),
     data |-> [k \in 1..roundDivisionUp(Len(value), 8) |->
                  stoul2(Reverse(substr(value, 8 * (k - 1), 8)))]]

\* operator[]: data_[index >> 3] & (1 << (index & 7))
get(bv, index) ==
    (bv.data[(index \div 8) + 1] \div Pow2(index % 8)) % 2 = 1

\* Fault: checkIndexBounds that compares with the bits of the buffer
checkIndexBoundsBuffer(bv, index) == index < 8 * Len(bv.data)

\* TRUE when checkIndexBounds returns, FALSE when it throws std::out_of_range
checkIndexBounds(bv, index) == index < bv.size

at(bv, index) ==
    IF ~checkIndexBounds(bv, index)
    THEN [err |-> "OutOfRange", ret |-> FALSE]
    ELSE [err |-> "none", ret |-> get(bv, index)]

\* Fault: set that writes the byte without keeping its other bits
setClearsByte(bv, index, bit) ==
    [bv EXCEPT !.data[(index \div 8) + 1] =
                   (IF bit THEN 1 ELSE 0) * Pow2(index % 8)]

\* set, once checkIndexBounds(index) has returned
set(bv, index, bit) ==
    LET arrayIndex == index \div 8
        bitIndex == index % 8
        old == bv.data[arrayIndex + 1]
        cleared == old - ((old \div Pow2(bitIndex)) % 2) * Pow2(bitIndex)
    IN  [bv EXCEPT !.data[arrayIndex + 1] =
                       cleared + (IF bit THEN 1 ELSE 0) * Pow2(bitIndex)]

\* the byte at data_[k]; past the end of the buffer it is whatever lies there
byteAt(bv, k, junk) ==
    IF k < Len(bv.data) THEN bv.data[k + 1] ELSE junk[k - Len(bv.data) + 1]

\* bit j (0 the least significant) of *reinterpret_cast<uint32_t*>(&data_[k])
\* on a little-endian host
loadWord(bv, k, junk, j) ==
    (byteAt(bv, k + (j \div 8), junk) \div Pow2(j % 8)) % 2 = 1

\* the indices into data_ of the bytes that the 32-bit load of
\* popcount(start, len) reads
loadedBytes(start) == {(start \div 8) + k : k \in 0..((WordBits \div 8) - 1)}

\* popcount(): std::popcount summed over the bytes of the buffer
RECURSIVE popcountByte(_)
popcountByte(a) == IF a = 0 THEN 0 ELSE (a % 2) + popcountByte(a \div 2)

RECURSIVE popcountBytes(_, _)
popcountBytes(bv, k) ==
    IF k = 0 THEN 0 ELSE popcountBytes(bv, k - 1) + popcountByte(bv.data[k])

\* Fault: popcount() over the whole bytes only
popcountWholeBytes(bv) == popcountBytes(bv, bv.size \div 8)

popcount(bv) == popcountBytes(bv, roundDivisionUp(bv.size, 8))

\* popcount(start, len): the set bits of (val >> (start & 7)) << (32 - len).
\* With len = 0 the word is shifted left by its width, which is undefined:
\* the machine either takes the count modulo 32 and leaves the word as it is
\* (shiftWraps), or shifts every bit out.
popcountRange(bv, start, len, junk, shiftWraps) ==
    IF ~checkIndexBounds(bv, start) THEN [err |-> "OutOfRange", val |-> 0]
    ELSE IF len > 32 THEN [err |-> "InvalidArgument", val |-> 0]
    ELSE LET shr(j) == /\ j + (start % 8) <= 31
                       /\ loadWord(bv, start \div 8, junk, j + (start % 8))
             shl(j) == IF len = 0 THEN shiftWraps /\ shr(j)
                       ELSE j >= 32 - len /\ shr(j - (32 - len))
         IN  [err |-> "none", val |-> Cardinality({j \in 0..31 : shl(j)})]

----------------------------------------------------------------------------
(* RankSupport *)

\* Fault: the loop of buildTables with a block sum that is not set back to
\* zero where a superblock starts
RECURSIVE buildLoopNoReset(_, _, _, _)
buildLoopNoReset(rk, bv, i, acc) ==
    IF i >= bv.size THEN acc
    ELSE LET a1 == IF urem(i, rk.superblockSize) = 0
                   THEN [acc EXCEPT
                           !.superblocks[udiv(i, rk.superblockSize) + 1] =
                               acc.superblockSum]
                   ELSE acc
             a2 == IF urem(i, rk.blockSize) = 0
                   THEN [a1 EXCEPT
                           !.blocks[udiv(i, rk.blockSize) + 1] = a1.blockSum]
                   ELSE a1
             bit == IF get(bv, i) THEN 1 ELSE 0
         IN  buildLoopNoReset(rk, bv, i + 1,
                              [a2 EXCEPT !.blockSum = @ + bit,
                                         !.superblockSum = @ + bit])

\* the loop of buildTables from bit i on; acc carries the two tables and
\* the two running sums
RECURSIVE buildLoop(_, _, _, _)
buildLoop(rk, bv, i, acc) ==
    IF i >= bv.size THEN acc
    ELSE LET a1 == IF urem(i, rk.superblockSize) = 0
                   THEN [acc EXCEPT
                           !.superblocks[udiv(i, rk.superblockSize) + 1] =
                               acc.superblockSum,
                           !.blockSum = 0]
                   ELSE acc
             a2 == IF urem(i, rk.blockSize) = 0
                   THEN [a1 EXCEPT
                           !.blocks[udiv(i, rk.blockSize) + 1] = a1.blockSum]
                   ELSE a1
             bit == IF get(bv, i) THEN 1 ELSE 0
         IN  buildLoop(rk, bv, i + 1,
                       [a2 EXCEPT !.blockSum = @ + bit,
                                  !.superblockSum = @ + bit])

\* TRUE when buildTables throws std::out_of_range (its own check, or .at())
buildTablesThrows(rk, bv, startingIndex) ==
    \/ startingIndex > bv.size
    \/ udiv(startingIndex, rk.superblockSize) >= Len(rk.superblocks)
    \/ udiv(udiv(startingIndex, rk.superblockSize) * rk.superblockSize,
            rk.blockSize) >= Len(rk.blocks)

\* Fault: buildTables that starts at startingIndex itself and not at the
\* start of its superblock
buildTablesFromIndex(rk, bv, startingIndex) ==
    LET start == startingIndex
        acc == buildLoop(rk, bv, start,
                   [superblocks |-> rk.superblocks,
                    blocks |-> rk.blocks,
                    superblockSum |->
                        rk.superblocks[udiv(start, rk.superblockSize) + 1],
                    blockSum |-> rk.blocks[udiv(start, rk.blockSize) + 1]])
    IN  [rk EXCEPT !.superblocks = acc.superblocks,
                   !.blocks = acc.blocks,
                   !.totalOnes = acc.superblockSum]

\* buildTables, when it does not throw
buildTables(rk, bv, startingIndex) ==
    LET start == udiv(startingIndex, rk.superblockSize) * rk.superblockSize
        acc == buildLoop(rk, bv, start,
                   [superblocks |-> rk.superblocks,
                    blocks |-> rk.blocks,
                    superblockSum |->
                        rk.superblocks[udiv(start, rk.superblockSize) + 1],
                    blockSum |-> rk.blocks[udiv(start, rk.blockSize) + 1]])
    IN  [rk EXCEPT !.superblocks = acc.superblocks,
                   !.blocks = acc.blocks,
                   !.totalOnes = acc.superblockSum]

\* the table entries the loop of buildTables assigns: it runs from the
\* start of the superblock of startingIndex to the last bit
buildTablesWrites(rk, bv, startingIndex) ==
    LET start == udiv(startingIndex, rk.superblockSize) * rk.superblockSize
    IN  {<<"superblocks", udiv(i, rk.superblockSize)>> :
            i \in {j \in start..(bv.size - 1) : urem(j, rk.superblockSize) = 0}}
        \cup {<<"blocks", udiv(i, rk.blockSize)>> :
            i \in {j \in start..(bv.size - 1) : urem(j, rk.blockSize) = 0}}

\* Fault: a superblock size rounded up, not down
superblockSizeForRoundedUp(size) ==
    (log2(roundUpToPowerOf2(size)) * log2(roundUpToPowerOf2(size)) + 1) \div 2

\* superblockSize_ and blockSize_ of the constructor's initializer list
superblockSizeFor(size) ==
    (log2(roundUpToPowerOf2(size)) * log2(roundUpToPowerOf2(size))) \div 2
blockSizeFor(size) == log2(roundUpToPowerOf2(size)) \div 2

\* TRUE when the constructor divides by zero
RankSupportDividesByZero(bv) ==
    superblockSizeFor(bv.size) = 0 \/ blockSizeFor(bv.size) = 0

RankSupport(bv) ==
    LET s == superblockSizeFor(bv.size)
        b == blockSizeFor(bv.size)
    IN  buildTables([superblockSize |-> s,
                     blockSize |-> b,
                     superblocks |-> [k \in 1..roundDivisionUp(bv.size, s) |-> 0],
                     blocks |-> [k \in 1..roundDivisionUp(bv.size, b) |-> 0],
                     totalOnes |-> 0],
                    bv, 0)

\* Fault: rank1 without the superblock count
rank1NoSuperblock(rk, bv, i, junk) ==
    IF i >= bv.size THEN [err |-> "OutOfRange", val |-> 0]
    ELSE LET blockCount ==
                 popcountRange(bv, udiv(i, rk.blockSize) * rk.blockSize,
                               urem(i, rk.blockSize) + 1, junk, FALSE)
         IN  IF blockCount.err # "none" THEN blockCount
             ELSE [err |-> "none",
                   val |-> rk.blocks[udiv(i, rk.blockSize) + 1] + blockCount.val]

\* the length passed to popcount is at least 1, so the shift is below 32
rank1(rk, bv, i, junk) ==
    IF i >= bv.size THEN [err |-> "OutOfRange", val |-> 0]
    ELSE LET blockCount ==
                 popcountRange(bv, udiv(i, rk.blockSize) * rk.blockSize,
                               urem(i, rk.blockSize) + 1, junk, FALSE)
         IN  IF blockCount.err # "none" THEN blockCount
             ELSE [err |-> "none",
                   val |-> rk.superblocks[udiv(i, rk.superblockSize) + 1]
                           + rk.blocks[udiv(i, rk.blockSize) + 1]
                           + blockCount.val]

\* the bytes of data_ that rank1(i) loads, through popcount
rank1Loads(rk, bv, i) == loadedBytes(udiv(i, rk.blockSize) * rk.blockSize)

----------------------------------------------------------------------------
(* SelectSupport *)

\* the while loop of select1.  upper = mid - 1 with mid = 0 wraps to
\* 2^32 - 1; lower is 0 there, so the next probe is rank((2^32 - 1) / 2),
\* which is out of range for every size the model reaches.
RECURSIVE selectLoop(_, _, _, _, _, _)
selectLoop(rk, bv, i, lower, upper, junk) ==
    IF lower > upper THEN [err |-> "Internal", val |-> 0]
    ELSE LET mid == (lower + upper) \div 2
             valueAtMid == rank1(rk, bv, mid, junk)
         IN  IF valueAtMid.err # "none" THEN valueAtMid
             ELSE IF valueAtMid.val < i
                  THEN selectLoop(rk, bv, i, mid + 1, upper, junk)
             ELSE IF valueAtMid.val > i \/ ~at(bv, mid).ret
                  THEN IF mid = 0
                       THEN rank1(rk, bv, 2147483647, junk)
                       ELSE selectLoop(rk, bv, i, lower, mid - 1, junk)
             ELSE [err |-> "none", val |-> mid]

\* Fault: select1 whose search starts at position 1
select1FromOne(rk, bv, i, junk) ==
    IF i > rk.totalOnes THEN [err |-> "InvalidArgument", val |-> 0]
    ELSE IF i = 0 THEN [err |-> "InvalidArgument", val |-> 0]
    ELSE selectLoop(rk, bv, i, 1, bv.size, junk)

\* Fault: select1 that lets i = 0 into the search
select1NoZeroCheck(rk, bv, i, junk) ==
    IF i > rk.totalOnes THEN [err |-> "InvalidArgument", val |-> 0]
    ELSE selectLoop(rk, bv, i, 0, bv.size, junk)

select1(rk, bv, i, junk) ==
    IF i > rk.totalOnes THEN [err |-> "InvalidArgument", val |-> 0]
    ELSE IF i = 0 THEN [err |-> "InvalidArgument", val |-> 0]
    ELSE selectLoop(rk, bv, i, 0, bv.size, junk)

\* the positions the while loop of select1 probes, in order: mid of every
\* iteration, and whether the iteration ends in upper = mid - 1 with mid = 0
RECURSIVE selectProbes(_, _, _, _, _, _)
selectProbes(rk, bv, i, lower, upper, junk) ==
    IF lower > upper THEN <<>>
    ELSE LET mid == (lower + upper) \div 2
             valueAtMid == rank1(rk, bv, mid, junk)
         IN  IF valueAtMid.err # "none" THEN <<[mid |-> mid, wraps |-> FALSE]>>
             ELSE IF valueAtMid.val < i
                  THEN <<[mid |-> mid, wraps |-> FALSE]>>
                           \o selectProbes(rk, bv, i, mid + 1, upper, junk)
             ELSE IF valueAtMid.val > i \/ ~at(bv, mid).ret
                  THEN IF mid = 0
                       THEN <<[mid |-> mid, wraps |-> TRUE]>>
                       ELSE <<[mid |-> mid, wraps |-> FALSE]>>
                                \o selectProbes(rk, bv, i, lower, mid - 1, junk)
             ELSE <<[mid |-> mid, wraps |-> FALSE]>>

\* the probes of select1(i): none when the argument check throws
select1Probes(rk, bv, i, junk) ==
    IF i > rk.totalOnes \/ i = 0 THEN <<>>
    ELSE selectProbes(rk, bv, i, 0, bv.size, junk)

----------------------------------------------------------------------------
(* Byte streams *)

\* the w bytes of an unsigned integer, least significant first
RECURSIVE ToBytes(_, _)
ToBytes(v, w) ==
    IF w = 0 THEN <<>> ELSE <<v % 256>> \o ToBytes(v \div 256, w - 1)

RECURSIVE FromBytes(_)
FromBytes(bytes) ==
    IF bytes = <<>> THEN 0 ELSE bytes[1] + 256 * FromBytes(Tail(bytes))

\* the n bytes a stream read returns at offset pos
take(bytes, pos, n) == SubSeq(bytes, pos + 1, pos + n)

\* the elements of vec written one after the other, w bytes each
RECURSIVE writeElems(_, _)
writeElems(vec, w) ==
    IF vec = <<>> THEN <<>> ELSE ToBytes(Head(vec), w) \o writeElems(Tail(vec), w)

readElems(bytes, pos, count, w) ==
    [k \in 1..count |-> FromBytes(take(bytes, pos + w * (k - 1), w))]

(* RankSupport::save and RankSupport::load *)

\* Fault: RankSupport::save that writes each table as serial::serialize
\* writes a container, behind its own 8-byte length
RankSupport_saveContainers(rk) ==
    RankMagic
        \o ToBytes(rk.superblockSize, SizeofU32)
        \o ToBytes(rk.blockSize, SizeofU32)
        \o ToBytes(Len(rk.superblocks), SizeofSizeT)
        \o writeElems(rk.superblocks, SizeofU32)
        \o ToBytes(Len(rk.blocks), SizeofSizeT)
        \o writeElems(rk.blocks, SizeofU32)

RankSupport_save(rk) ==
    RankMagic
        \o ToBytes(rk.superblockSize, SizeofU32)
        \o ToBytes(rk.blockSize, SizeofU32)
        \o ToBytes(Len(rk.superblocks), SizeofU32)
        \o ToBytes(Len(rk.blocks), SizeofU32)
        \o writeElems(rk.superblocks, SizeofU32)
        \o writeElems(rk.blocks, SizeofU32)

\* Fault: RankSupport::load that reads the blocks from where the superblocks
\* start
RankSupport_loadSameOffset(rk, bytes) ==
    IF take(bytes, 0, SizeofU32) # RankMagic
    THEN [err |-> "Corrupt", rk |-> rk]
    ELSE LET superblockSize == FromBytes(take(bytes, 4, SizeofU32))
             blockSize == FromBytes(take(bytes, 8, SizeofU32))
             numSuperblocks == FromBytes(take(bytes, 12, SizeofU32))
             numBlocks == FromBytes(take(bytes, 16, SizeofU32))
         IN  [err |-> "none",
              rk |-> [rk EXCEPT
                        !.superblockSize = superblockSize,
                        !.blockSize = blockSize,
                        !.superblocks =
                            readElems(bytes, 20, numSuperblocks, SizeofU32),
                        !.blocks = readElems(bytes, 20, numBlocks, SizeofU32)]]

\* bytes = <<>> stands for a path with no file: the stream cannot be opened
\* and load throws std::ios_base::failure ("Io"); a wrong magic throws
\* std::domain_error ("Corrupt")
RankSupport_load(rk, bytes) ==
    IF bytes = <<>> THEN [err |-> "Io", rk |-> rk]
    ELSE IF take(bytes, 0, SizeofU32) # RankMagic
    THEN [err |-> "Corrupt", rk |-> rk]
    ELSE LET superblockSize == FromBytes(take(bytes, 4, SizeofU32))
             blockSize == FromBytes(take(bytes, 8, SizeofU32))
             numSuperblocks == FromBytes(take(bytes, 12, SizeofU32))
             numBlocks == FromBytes(take(bytes, 16, SizeofU32))
         IN  [err |-> "none",
              rk |-> [rk EXCEPT
                        !.superblockSize = superblockSize,
                        !.blockSize = blockSize,
                        !.superblocks =
                            readElems(bytes, 20, numSuperblocks, SizeofU32),
                        !.blocks =
                            readElems(bytes, 20 + SizeofU32 * numSuperblocks,
                                      numBlocks, SizeofU32)]]

----------------------------------------------------------------------------
(* Operations on a BitVector with a RankSupport and a SelectSupport over   *)
(* it, as the tests drive them (testRank, testSelect)                      *)

NoLog == [size |-> 0, appends |-> <<>>]

NoRank == [superblockSize |-> 0, blockSize |-> 0, superblocks |-> <<>>,
           blocks |-> <<>>, totalOnes |-> 0]

Result(name, arg, err, ret, val) ==
    [name |-> name, arg |-> arg, err |-> err, ret |-> ret, val |-> val]

\* EXAMPLE_STR of testRank and testSelect
EXAMPLE_STR ==
    <<"1", "0", "0", "1", "0", "1", "1", "1", "0", "1", "0", "0", "1", "0", "1", "0">>

\* every binary string of 1..MaxLen characters, and the example of the tests
BinaryStrings ==
    UNION {[1..n -> {"0", "1"}] : n \in 1..MaxLen} \cup {EXAMPLE_STR}

\* rank1, select1 and the SparseArray getters are const: they leave every
\* object as it is, so a state reached through one of them is also reached
\* without it.  The model takes a getter only from a state left by a
\* constructor or a mutator, which reaches the same states with fewer steps.
Getters == {"rank1", "select1", "getAtIndex", "getAtRank", "numElemAt",
            "size", "numElem", "at", "popcount", "popcountRange"}
AfterMutator == op.name \notin Getters

InitBV ==
    /\ str \in BinaryStrings
    /\ bitvector_ = BitVectorFromString(str)
    /\ rank_ = NoRank
    /\ values_ = <<>>
    /\ file = <<>>
    /\ phase = "bv"
    /\ op = Result("BitVector", Len(str), "none", TRUE, 0)
    /\ log = NoLog
    /\ saved = NoRank

\* RankSupport rank(bv)
ConstructRank ==
    /\ phase = "bv"
    /\ \/ /\ RankSupportDividesByZero(bitvector_)
          /\ phase' = "fpe"
          /\ op' = Result("RankSupport", 0, "fpe", FALSE, 0)
          /\ UNCHANGED rank_
       \/ /\ phase' = "ok"
          /\ rank_' = RankSupport(bitvector_)
          /\ op' = Result("RankSupport", 0, "none", TRUE, 0)
    /\ UNCHANGED <<str, bitvector_, values_, file, log, saved>>

\* rank(i)
Rank1Call ==
    /\ phase = "ok"
    /\ AfterMutator
    /\ \E i \in 0..bitvector_.size, junk \in Junk :
          LET r == rank1(rank_, bitvector_, i, junk)
          IN  op' = Result("rank1", i, r.err, r.err = "none", r.val)
    /\ UNCHANGED <<str, bitvector_, rank_, values_, file, phase, log, saved>>

\* select(i)
Select1Call ==
    /\ phase = "ok"
    /\ AfterMutator
    /\ \E i \in 0..(bitvector_.size + 1), junk \in Junk :
          LET r == select1(rank_, bitvector_, i, junk)
          IN  op' = Result("select1", i, r.err, r.err = "none", r.val)
    /\ UNCHANGED <<str, bitvector_, rank_, values_, file, phase, log, saved>>

\* rank.save("junk.ranksupport")
RankSave ==
    /\ phase = "ok"
    /\ file' = RankSupport_save(rank_)
    /\ saved' = rank_
    /\ op' = Result("save", 0, "none", TRUE, 0)
    /\ UNCHANGED <<str, bitvector_, rank_, values_, phase, log>>

\* rank.load("junk.ranksupport")
RankLoad ==
    /\ phase = "ok"
    /\ file # <<>>
    /\ LET r == RankSupport_load(rank_, file)
       IN  /\ rank_' = r.rk
           /\ op' = Result("load", 0, r.err, r.err = "none", 0)
    /\ UNCHANGED <<str, bitvector_, values_, file, phase, log, saved>>

\* bv.set(index, !bv[index]); rank.buildTables(index); on the vectors of
\* up to MaxLen bits.  str follows the vector; op.val is 1 when the bit was
\* set and 0 when it was cleared.
FlipRebuild ==
    /\ phase = "ok"
    /\ bitvector_.size <= MaxLen
    /\ \E index \in 0..(bitvector_.size - 1) :
          LET value == ~get(bitvector_, index)
              flipped == set(bitvector_, index, value)
          IN  /\ ~buildTablesThrows(rank_, flipped, index)
              /\ bitvector_' = flipped
              /\ rank_' = buildTables(rank_, flipped, index)
              /\ str' = [str EXCEPT ![index + 1] = IF value THEN "1" ELSE "0"]
              /\ op' = Result("flip", index, "none", TRUE,
                              IF value THEN 1 ELSE 0)
    /\ UNCHANGED <<values_, file, phase, log, saved>>

NextFlip ==
    \/ ConstructRank
    \/ FlipRebuild

SpecFlip == InitBV /\ [][NextFlip]_vars

NextBV ==
    \/ ConstructRank
    \/ Rank1Call
    \/ Select1Call
    \/ RankSave
    \/ RankLoad

SpecBV == InitBV /\ [][NextBV]_vars

----------------------------------------------------------------------------
(* Operations on one BitVector, as testBitVector drives them *)

\* a vector of ones longer than a 32-bit word
LongString == [k \in 1..LongLen |-> "1"]

\* every binary string of 0..MaxLen characters, and the long one
BitStrings == UNION {[1..n -> {"0", "1"}] : n \in 0..MaxLen} \cup {LongString}

\* BitVector bv(value), or BitVector bv(size)
InitBits ==
    /\ \/ /\ str \in BitStrings
          /\ bitvector_ = BitVectorFromString(str)
          /\ op = Result("BitVector(string)", Len(str), "none", TRUE, 0)
       \/ \E size \in 0..MaxLen :
             /\ str = <<>>
             /\ bitvector_ = BitVector(size)
             /\ op = Result("BitVector(size)", size, "none", TRUE, 0)
    /\ rank_ = NoRank
    /\ values_ = <<>>
    /\ file = <<>>
    /\ phase = "bits"
    /\ log = NoLog
    /\ saved = NoRank

\* bv.set(index, bit); the long vector is only read
SetCall ==
    /\ phase = "bits"
    /\ AfterMutator
    /\ bitvector_.size <= MaxLen
    /\ \E index \in 0..bitvector_.size, bit \in BOOLEAN :
          IF ~checkIndexBounds(bitvector_, index)
          THEN /\ op' = Result("set", index, "OutOfRange", FALSE,
                               IF bit THEN 1 ELSE 0)
               /\ UNCHANGED <<str, bitvector_>>
          ELSE /\ bitvector_' = set(bitvector_, index, bit)
               /\ str' = <<>>
               /\ op' = Result("set", index, "none", TRUE, IF bit THEN 1 ELSE 0)
    /\ UNCHANGED <<rank_, values_, file, phase, log, saved>>

\* bv.at(index)
AtCall ==
    /\ phase = "bits"
    /\ AfterMutator
    /\ \E index \in 0..(bitvector_.size + 1) :
          LET r == at(bitvector_, index)
          IN  op' = Result("at", index, r.err, r.ret, 0)
    /\ UNCHANGED <<str, bitvector_, rank_, values_, file, phase, log, saved>>

\* bv.popcount()
PopcountCall ==
    /\ phase = "bits"
    /\ AfterMutator
    /\ op' = Result("popcount", 0, "none", TRUE, popcount(bitvector_))
    /\ UNCHANGED <<str, bitvector_, rank_, values_, file, phase, log, saved>>

\* the lengths popcount(start, len) is called with: those that stay within
\* the vector, the first that does not, and one above the width of the word
Lens(bv, start) ==
    {len \in 0..(bv.size - start + 1) : len <= WordBits} \cup {WordBits + 1}

\* popcount(start, len) is const and reads size_ and data_ only, and every
\* vector that set calls produce is also one a constructor produces from a
\* string: the model calls it on the constructed vectors.
AfterConstructor == op.name \in {"BitVector(string)", "BitVector(size)"}

\* bv.popcount(start, len); op.arg is <<start, len>>
PopcountRangeCall ==
    /\ phase = "bits"
    /\ AfterConstructor
    /\ \E start \in 0..bitvector_.size :
          \E len \in Lens(bitvector_, start), junk \in Junk :
             \E shiftWraps \in IF len = 0 THEN BOOLEAN ELSE {FALSE} :
                LET r == popcountRange(bitvector_, start, len, junk, shiftWraps)
                IN  op' = Result("popcountRange", <<start, len>>, r.err,
                                 r.err = "none", r.val)
    /\ UNCHANGED <<str, bitvector_, rank_, values_, file, phase, log, saved>>

NextBits ==
    \/ SetCall
    \/ AtCall
    \/ PopcountCall
    \/ PopcountRangeCall

SpecBits == InitBits /\ [][NextBits]_vars

----------------------------------------------------------------------------
(* SparseArray<uint64_t> *)

\* the three members after create(size): bitvector_, rank_, values_
SparseArray_create(size) ==
    [bitvector |-> BitVector(size),
     rank |-> RankSupport(BitVector(size)),
     values |-> <<>>]

\* Fault: append that does not look at the bit at pos
appendThrowsOutOfRangeOnly(bv, pos) == at(bv, pos).err

\* the exception append(elem, pos) throws before it changes anything
appendThrows(bv, pos) ==
    LET a == at(bv, pos)
    IN  IF a.err # "none" THEN a.err
        ELSE IF a.ret THEN "InvalidArgument"
        ELSE "none"

\* Fault: append that puts the element at the front of values_
SparseArray_appendFront(bv, rk, values, elem, pos) ==
    [bitvector |-> set(bv, pos, TRUE),
     rank |-> buildTables(rk, set(bv, pos, TRUE), pos),
     values |-> <<elem>> \o values]

\* Fault: append that sets the bit and stores no element
SparseArray_appendNoValue(bv, rk, values, elem, pos) ==
    [bitvector |-> set(bv, pos, TRUE),
     rank |-> buildTables(rk, set(bv, pos, TRUE), pos),
     values |-> values]

\* the three members after an append that does not throw
SparseArray_append(bv, rk, values, elem, pos) ==
    [bitvector |-> set(bv, pos, TRUE),
     rank |-> buildTables(rk, set(bv, pos, TRUE), pos),
     values |-> Append(values, elem)]

numElem(values) == Len(values)

\* Fault: getAtRank that counts ranks from 1
getAtRankFromOne(values, rank, element) ==
    IF rank >= 1 /\ rank <= numElem(values)
    THEN [err |-> "none", ret |-> TRUE, val |-> values[rank]]
    ELSE [err |-> "none", ret |-> FALSE, val |-> element]

getAtRank(values, rank, element) ==
    IF rank < numElem(values)
    THEN [err |-> "none", ret |-> TRUE, val |-> values[rank + 1]]
    ELSE [err |-> "none", ret |-> FALSE, val |-> element]

\* Fault: getAtIndex that indexes values_ with rank1(index), not rank1(index) - 1
getAtIndexNoMinusOne(bv, rk, values, index, element, junk) ==
    LET a == at(bv, index)
        arrayIndex == rank1(rk, bv, index, junk)
    IN  IF a.err # "none" THEN [err |-> a.err, ret |-> FALSE, val |-> element]
        ELSE IF ~a.ret THEN [err |-> "none", ret |-> FALSE, val |-> element]
        ELSE IF arrayIndex.err # "none"
             THEN [err |-> arrayIndex.err, ret |-> FALSE, val |-> element]
        ELSE IF arrayIndex.val \notin 0..(Len(values) - 1)
             THEN [err |-> "OutOfRange", ret |-> FALSE, val |-> element]
        ELSE [err |-> "none", ret |-> TRUE, val |-> values[arrayIndex.val + 1]]

getAtIndex(bv, rk, values, index, element, junk) ==
    LET a == at(bv, index)
        arrayIndex == rank1(rk, bv, index, junk)
    IN  IF a.err # "none" THEN [err |-> a.err, ret |-> FALSE, val |-> element]
        ELSE IF ~a.ret THEN [err |-> "none", ret |-> FALSE, val |-> element]
        ELSE IF arrayIndex.err # "none"
             THEN [err |-> arrayIndex.err, ret |-> FALSE, val |-> element]
        ELSE IF arrayIndex.val - 1 \notin 0..(Len(values) - 1)
             THEN [err |-> "OutOfRange", ret |-> FALSE, val |-> element]
        ELSE [err |-> "none", ret |-> TRUE, val |-> values[arrayIndex.val]]

numElemAt(bv, rk, index, junk) == rank1(rk, bv, index, junk)

\* serial::serialize of a std::vector of w-byte integers
serializeVector(vec, w) == ToBytes(Len(vec), SizeofSizeT) \o writeElems(vec, w)

\* serial::deserialize into a std::vector of w-byte integers, from offset
\* pos: the vector read and the offset after it
deserializeVector(bytes, pos, w) ==
    LET size == FromBytes(take(bytes, pos, SizeofSizeT))
    IN  [vec |-> readElems(bytes, pos + SizeofSizeT, size, w),
         pos |-> pos + SizeofSizeT + w * size]

SparseArray_save(bv, rk, values, saveRankTables) ==
    SparseMagic
        \o ToBytes(SizeofT, SizeofU32)
        \o ToBytes(bv.size, SizeofU32)
        \o SubSeq(bv.data, 1, roundDivisionUp(bv.size, 8))
        \o serializeVector(values, SizeofT)
        \o (IF saveRankTables
            THEN serializeVector(rk.superblocks, SizeofU32)
                     \o serializeVector(rk.blocks, SizeofU32)
            ELSE <<>>)

\* the size field of a file that passes the two checks of load
loadSize(bytes) == FromBytes(take(bytes, 8, SizeofU32))

\* Fault: load that throws an exception of its own type, not the
\* std::ios_base::failure of a file that cannot be opened, for a wrong magic
\* and for a wrong element size
loadThrowsDomainError(bytes) ==
    IF bytes = <<>> THEN "Io"
    ELSE IF take(bytes, 0, SizeofU32) # SparseMagic THEN "Corrupt"
    ELSE IF FromBytes(take(bytes, 4, SizeofU32)) # SizeofT THEN "Corrupt"
    ELSE "none"

\* the exception load throws, or "none".  bytes = <<>> stands for a path
\* with no file.  All three throws are std::ios_base::failure ("Io").
loadThrows(bytes) ==
    IF bytes = <<>> THEN "Io"
    ELSE IF take(bytes, 0, SizeofU32) # SparseMagic THEN "Io"
    ELSE IF FromBytes(take(bytes, 4, SizeofU32)) # SizeofT THEN "Io"
    ELSE "none"

\* Fault: load that keeps the tables of create when the file holds none
SparseArray_loadNoRebuild(bytes) ==
    LET created == SparseArray_create(loadSize(bytes))
        numBitvectorBytes == roundDivisionUp(created.bitvector.size, 8)
        bv == [created.bitvector EXCEPT !.data = take(bytes, 12, numBitvectorBytes)]
        vals == deserializeVector(bytes, 12 + numBitvectorBytes, SizeofT)
        atEof == vals.pos >= Len(bytes)
        sb == deserializeVector(bytes, vals.pos, SizeofU32)
        bl == deserializeVector(bytes, sb.pos, SizeofU32)
    IN  [bitvector |-> bv,
         rank |-> IF atEof THEN created.rank
                  ELSE [created.rank EXCEPT !.superblocks = sb.vec,
                                            !.blocks = bl.vec],
         values |-> vals.vec]

\* the three members after a load that does not throw
SparseArray_load(bytes) ==
    LET created == SparseArray_create(loadSize(bytes))
        numBitvectorBytes == roundDivisionUp(created.bitvector.size, 8)
        bv == [created.bitvector EXCEPT !.data = take(bytes, 12, numBitvectorBytes)]
        vals == deserializeVector(bytes, 12 + numBitvectorBytes, SizeofT)
        atEof == vals.pos >= Len(bytes)
        sb == deserializeVector(bytes, vals.pos, SizeofU32)
        bl == deserializeVector(bytes, sb.pos, SizeofU32)
    IN  [bitvector |-> bv,
         rank |-> IF atEof THEN buildTables(created.rank, bv, 0)
                  ELSE [created.rank EXCEPT !.superblocks = sb.vec,
                                            !.blocks = bl.vec],
         values |-> vals.vec]

----------------------------------------------------------------------------
(* Operations on one SparseArray object and the file it saves to *)

NoSaved == [bitvector |-> BitVector(0), rank |-> NoRank, values |-> <<>>,
            log |-> NoLog]

\* sparse::SparseArray<uint64_t> array;
Init ==
    /\ str = <<>>
    /\ bitvector_ = BitVector(DefaultSize)
    /\ rank_ = RankSupport(BitVector(DefaultSize))
    /\ values_ = <<>>
    /\ file = <<>>
    /\ phase = "new"
    /\ op = Result("SparseArray", 0, "none", TRUE, 0)
    /\ log = NoLog
    /\ saved = NoSaved

\* The sizes create is called with: those for which the RankSupport
\* constructor computes nonzero block sizes.  With size 1 or 2 it divides by
\* zero, which is undefined; ConstructRank models both outcomes of that.
CreateSizes == {n \in 1..MaxSize : ~RankSupportDividesByZero(BitVector(n))}

\* Fault: create that does not clear values_
CreateKeepsValues ==
    /\ phase \in {"new", "ok"}
    /\ \E size \in CreateSizes :
          /\ phase' = "ok"
          /\ bitvector_' = SparseArray_create(size).bitvector
          /\ rank_' = SparseArray_create(size).rank
          /\ log' = [size |-> size, appends |-> <<>>]
          /\ op' = Result("create", size, "none", TRUE, numElem(values_))
    /\ UNCHANGED <<str, values_, file, saved>>

\* array.create(size); op.val records how many elements the array held
\* when create was called
Create ==
    /\ phase \in {"new", "ok"}
    /\ \E size \in CreateSizes :
          /\ phase' = "ok"
          /\ bitvector_' = SparseArray_create(size).bitvector
          /\ rank_' = SparseArray_create(size).rank
          /\ values_' = SparseArray_create(size).values
          /\ log' = [size |-> size, appends |-> <<>>]
          /\ op' = Result("create", size, "none", TRUE, numElem(values_))
    /\ UNCHANGED <<str, file, saved>>

\* array.append(elem, pos)
AppendCall ==
    /\ phase = "ok"
    /\ \E elem \in Elems, pos \in 0..bitvector_.size :
          IF appendThrows(bitvector_, pos) # "none"
          THEN /\ op' = Result("append", pos, appendThrows(bitvector_, pos),
                               FALSE, elem)
               /\ UNCHANGED <<bitvector_, rank_, values_, log>>
          ELSE /\ numElem(values_) < MaxElems
               /\ LET r == SparseArray_append(bitvector_, rank_, values_, elem, pos)
                  IN  /\ bitvector_' = r.bitvector
                      /\ rank_' = r.rank
                      /\ values_' = r.values
               /\ log' = [log EXCEPT !.appends = Append(@, <<pos, elem>>)]
               /\ op' = Result("append", pos, "none", TRUE, elem)
    /\ UNCHANGED <<str, file, phase, saved>>

\* array.getAtIndex(index, tmp)
GetAtIndexCall ==
    /\ phase = "ok"
    /\ AfterMutator
    /\ \E index \in 0..bitvector_.size, element \in OutParams, junk \in Junk :
          LET r == getAtIndex(bitvector_, rank_, values_, index, element, junk)
          IN  op' = Result("getAtIndex", index, r.err, r.ret, r.val)
    /\ UNCHANGED <<str, bitvector_, rank_, values_, file, phase, log, saved>>

\* array.getAtRank(rank, tmp)
GetAtRankCall ==
    /\ phase = "ok"
    /\ AfterMutator
    /\ \E rank \in 0..(numElem(values_) + 1), element \in OutParams :
          LET r == getAtRank(values_, rank, element)
          IN  op' = Result("getAtRank", rank, r.err, r.ret, r.val)
    /\ UNCHANGED <<str, bitvector_, rank_, values_, file, phase, log, saved>>

\* array.numElemAt(index)
NumElemAtCall ==
    /\ phase = "ok"
    /\ AfterMutator
    /\ \E index \in 0..bitvector_.size, junk \in Junk :
          LET r == numElemAt(bitvector_, rank_, index, junk)
          IN  op' = Result("numElemAt", index, r.err, r.err = "none", r.val)
    /\ UNCHANGED <<str, bitvector_, rank_, values_, file, phase, log, saved>>

\* array.numElem() and array.size()
NumElemCall ==
    /\ phase = "ok"
    /\ AfterMutator
    /\ op' = Result("numElem", 0, "none", TRUE, numElem(values_))
    /\ UNCHANGED <<str, bitvector_, rank_, values_, file, phase, log, saved>>

SizeCall ==
    /\ phase = "ok"
    /\ AfterMutator
    /\ op' = Result("size", 0, "none", TRUE, bitvector_.size)
    /\ UNCHANGED <<str, bitvector_, rank_, values_, file, phase, log, saved>>

Next ==
    \/ Create
    \/ AppendCall
    \/ GetAtIndexCall
    \/ GetAtRankCall
    \/ NumElemAtCall
    \/ NumElemCall
    \/ SizeCall

Spec == Init /\ [][Next]_vars

(* The same object with save and load.  The array is built (create, then   *)
(* appends) before the file is first written; afterwards it is saved,      *)
(* queried and loaded, into the same object or into a new one.             *)

\* array.save("junk.sparsearray", saveRankTables)
Save ==
    /\ phase = "ok"
    /\ \E saveRankTables \in BOOLEAN :
          /\ file' = SparseArray_save(bitvector_, rank_, values_, saveRankTables)
          /\ op' = Result("save", IF saveRankTables THEN 1 ELSE 0, "none", TRUE, 0)
    /\ saved' = [bitvector |-> bitvector_, rank |-> rank_, values |-> values_,
                 log |-> log]
    /\ UNCHANGED <<str, bitvector_, rank_, values_, phase, log>>

\* Files of other writers: the tables of a RankSupport over 8 bits, and an
\* empty SparseArray<std::uint32_t> of size 8 (element size 4)
RankFile == RankSupport_save(RankSupport(BitVector(DefaultSize)))
Uint32ArrayFile ==
    SparseMagic
        \o ToBytes(SizeofU32, SizeofU32)
        \o ToBytes(DefaultSize, SizeofU32)
        \o BitVector(DefaultSize).data
        \o serializeVector(<<>>, SizeofU32)

\* what is at the path load is given: 0 is "junk.sparsearray", the file of
\* save (no file before the first save), 1 the RankSupport file, 2 the
\* SparseArray<std::uint32_t> file
LoadPaths == {0, 1, 2}
FileAt(path) ==
    IF path = 0 THEN file ELSE IF path = 1 THEN RankFile ELSE Uint32ArrayFile

\* array.load(path).  The file of save has a size field in CreateSizes.  The
\* loads that throw are made on a new array.
Load ==
    /\ phase \in {"new", "ok"}
    /\ \E path \in LoadPaths :
          /\ loadThrows(FileAt(path)) # "none" => phase = "new"
          /\ IF loadThrows(FileAt(path)) # "none"
             THEN /\ op' = Result("load", path, loadThrows(FileAt(path)),
                                  FALSE, 0)
                  /\ UNCHANGED <<bitvector_, rank_, values_, phase, log>>
             ELSE /\ phase' = "ok"
                  /\ bitvector_' = SparseArray_load(FileAt(path)).bitvector
                  /\ rank_' = SparseArray_load(FileAt(path)).rank
                  /\ values_' = SparseArray_load(FileAt(path)).values
                  /\ log' = saved.log
                  /\ op' = Result("load", path, "none", TRUE, 0)
    /\ UNCHANGED <<str, file, saved>>

\* a second array: sparse::SparseArray<uint64_t> array; the file stays
NewArray ==
    /\ phase = "ok"
    /\ file # <<>>
    /\ bitvector_' = BitVector(DefaultSize)
    /\ rank_' = RankSupport(BitVector(DefaultSize))
    /\ values_' = <<>>
    /\ phase' = "new"
    /\ log' = NoLog
    /\ op' = Result("SparseArray", 0, "none", TRUE, 0)
    /\ UNCHANGED <<str, file, saved>>

CreateBeforeSave == file = <<>> /\ Create
AppendBeforeSave == file = <<>> /\ AppendCall

NextIO ==
    \/ CreateBeforeSave
    \/ AppendBeforeSave
    \/ GetAtIndexCall
    \/ GetAtRankCall
    \/ Save
    \/ Load
    \/ NewArray

SpecIO == Init /\ [][NextIO]_vars

----------------------------------------------------------------------------
(* serial::serialize and serial::deserialize on any Serializable type: a   *)
(* trivial type of w bytes, a std::vector (Container and Resizable) or a   *)
(* std::array of n items (Container, not Resizable) of a Serializable type *)

U8 == [k |-> "trivial", w |-> 1]
U32 == [k |-> "trivial", w |-> SizeofU32]
Vector(T) == [k |-> "vector", of |-> T]
Array(T, n) == [k |-> "array", of |-> T, n |-> n]

\* T{}: the value of a value-initialized object
RECURSIVE ValueInit(_)
ValueInit(type) ==
    IF type.k = "trivial" THEN 0
    ELSE IF type.k = "vector" THEN <<>>
    ELSE [j \in 1..type.n |-> ValueInit(type.of)]

\* Fault: resize that leaves the container as it is
resizeKeeps(type, data, size) == data

\* data.resize(size) of a std::vector
resize(type, data, size) ==
    [j \in 1..size |-> IF j <= Len(data) THEN data[j] ELSE ValueInit(type.of)]

\* istream::read of w bytes at offset pos into an object that holds data:
\* the bytes the stream still has replace the first bytes of the object
streamRead(bytes, pos, w, data) ==
    FromBytes([j \in 1..w |-> IF pos + j <= Len(bytes) THEN bytes[pos + j]
                               ELSE ToBytes(data, w)[j]])

RECURSIVE serialize(_, _)
RECURSIVE serializeItems(_, _, _)

\* for (auto const& value : data) serialize(value, outputStream), from the
\* j-th item on
serializeItems(type, data, j) ==
    IF j > Len(data) THEN <<>>
    ELSE serialize(type.of, data[j]) \o serializeItems(type, data, j + 1)

\* the bytes serialize(data, outputStream) writes
serialize(type, data) ==
    IF type.k = "trivial" THEN ToBytes(data, type.w)
    ELSE ToBytes(Len(data), SizeofSizeT) \o serializeItems(type, data, 1)

RECURSIVE deserialize(_, _, _, _)
RECURSIVE deserializeItems(_, _, _, _, _)

\* for (auto &value : data) deserialize(value, inputStream), from the j-th
\* item on; an exception ends the loop
deserializeItems(type, data, bytes, pos, j) ==
    IF j > Len(data) THEN [err |-> "none", data |-> data, pos |-> pos]
    ELSE LET r == deserialize(type.of, data[j], bytes, pos)
             read == [data EXCEPT ![j] = r.data]
         IN  IF r.err # "none" THEN [err |-> r.err, data |-> read, pos |-> r.pos]
             ELSE deserializeItems(type, read, bytes, r.pos, j + 1)

\* deserialize(data, inputStream) with the stream at offset pos: the
\* exception ("Corrupt" is the std::runtime_error of a size mismatch), what
\* data holds afterwards and the offset of the stream
deserialize(type, data, bytes, pos) ==
    IF type.k = "trivial"
    THEN [err |-> "none", data |-> streamRead(bytes, pos, type.w, data),
          pos |-> pos + type.w]
    ELSE LET currentSize == Len(data)
             size == streamRead(bytes, pos, SizeofSizeT, 0)
         IN  IF currentSize # size /\ type.k = "array"
             THEN [err |-> "Corrupt", data |-> data, pos |-> pos + SizeofSizeT]
             ELSE deserializeItems(
                      type,
                      IF currentSize # size THEN resize(type, data, size)
                      ELSE data,
                      bytes, pos + SizeofSizeT, 1)

(* Values written with serialize and read back with deserialize into an    *)
(* object of the same type, or of a type that differs in the length of its *)
(* arrays, that holds something else                                       *)

SerialTypes ==
    {U8, U32, Vector(U32), Vector(Vector(U8)), Array(U8, 2),
     Vector(Array(U8, 2))}

LeafValues(w) == IF w = 1 THEN {0, 255} ELSE {258}

\* the values of a type, with vectors of up to MaxItems items
RECURSIVE ValuesOf(_)
ValuesOf(type) ==
    IF type.k = "trivial" THEN LeafValues(type.w)
    ELSE IF type.k = "vector"
    THEN UNION {[1..n -> ValuesOf(type.of)] : n \in 0..MaxItems}
    ELSE [1..type.n -> ValuesOf(type.of)]

\* the types of the object read into: the type written, with arrays of any
\* length
RECURSIVE DestTypes(_)
DestTypes(type) ==
    IF type.k = "trivial" THEN {type}
    ELSE IF type.k = "vector" THEN {Vector(d) : d \in DestTypes(type.of)}
    ELSE {Array(d, n) : d \in DestTypes(type.of), n \in 1..MaxItems}

\* what the object read into holds beforehand: n items in every vector
RECURSIVE Filled(_, _)
Filled(type, n) ==
    IF type.k = "trivial" THEN 255
    ELSE IF type.k = "vector" THEN [j \in 1..n |-> Filled(type.of, n)]
    ELSE [j \in 1..type.n |-> Filled(type.of, n)]

\* DataType data = ...;
InitSerial ==
    /\ str = <<>>
    /\ bitvector_ = BitVector(0)
    /\ rank_ = NoRank
    /\ values_ = <<>>
    /\ file = <<>>
    /\ phase = "serial"
    /\ op = Result("value", 0, "none", TRUE, 0)
    /\ log = NoLog
    /\ \E type \in SerialTypes :
          \E data \in ValuesOf(type) : saved = [type |-> type, data |-> data]

\* serial::serialize(data, outputStream); op.val is the length of the file
SerializeCall ==
    /\ phase = "serial"
    /\ op.name = "value"
    /\ file' = serialize(saved.type, saved.data)
    /\ op' = Result("serialize", 0, "none", TRUE, Len(file'))
    /\ UNCHANGED <<str, bitvector_, rank_, values_, phase, log, saved>>

\* serial::deserialize(other, inputStream) into an object, kept in log,
\* that held something else; values_ is what it holds afterwards and op.val
\* the offset the stream is left at
DeserializeCall ==
    /\ phase = "serial"
    /\ op.name = "serialize"
    /\ \E type \in DestTypes(saved.type), n \in 0..MaxItems :
          LET r == deserialize(type, Filled(type, n), file, 0)
          IN  /\ log' = [type |-> type, data |-> Filled(type, n)]
              /\ values_' = r.data
              /\ op' = Result("deserialize", n, r.err, r.err = "none", r.pos)
    /\ UNCHANGED <<str, bitvector_, rank_, file, phase, saved>>

NextSerial ==
    \/ SerializeCall
    \/ DeserializeCall

SpecSerial == InitSerial /\ [][NextSerial]_vars

----------------------------------------------------------------------------
(* The block sizes the RankSupport constructor computes, for vectors of    *)
(* every length up to MaxBits                                              *)

\* BitVector bv(size);
InitSizes ==
    /\ str = <<>>
    /\ \E size \in 1..MaxBits : bitvector_ = BitVector(size)
    /\ rank_ = NoRank
    /\ values_ = <<>>
    /\ file = <<>>
    /\ phase = "bv"
    /\ op = Result("BitVector", bitvector_.size, "none", TRUE, 0)
    /\ log = NoLog
    /\ saved = NoRank

\* the initializers of superblockSize_ and blockSize_ in
\* RankSupport rank(bv), before the tables are sized and built
BlockSizes ==
    /\ phase = "bv"
    /\ phase' = "sizes"
    /\ rank_' = [NoRank EXCEPT
                   !.superblockSize = superblockSizeFor(bitvector_.size),
                   !.blockSize = blockSizeFor(bitvector_.size)]
    /\ op' = Result("RankSupport", 0, "none", TRUE, 0)
    /\ UNCHANGED <<str, bitvector_, values_, file, log, saved>>

NextSizes ==
    \/ BlockSizes

SpecSizes == InitSizes /\ [][NextSizes]_vars

----------------------------------------------------------------------------
(* Reference definitions the claims compare the code with *)

\* the number of '1' among the first k characters of s
RECURSIVE CountOnes(_, _)
CountOnes(s, k) ==
    IF k = 0 THEN 0 ELSE CountOnes(s, k - 1) + (IF s[k] = "1" THEN 1 ELSE 0)

\* naiveSelect of the tests: the 0-based position of the count-th '1' at or
\* after position p, -1 when there is none
RECURSIVE NaiveSelectFrom(_, _, _)
NaiveSelectFrom(s, count, p) ==
    IF p >= Len(s) THEN -1
    ELSE IF s[p + 1] = "1"
         THEN IF count = 1 THEN p ELSE NaiveSelectFrom(s, count - 1, p + 1)
    ELSE NaiveSelectFrom(s, count, p + 1)

NaiveSelect(s, count) == NaiveSelectFrom(s, count, 0)

\* the positions whose bit reads as set
SetBits(bv) == {i \in 0..(bv.size - 1) : get(bv, i)}

\* the successful appends of the history
Appends == {log.appends[k] : k \in 1..Len(log.appends)}
Positions == {a[1] : a \in Appends}
AppendedAt(p) == (CHOOSE a \in Appends : a[1] = p)[2]
Increasing ==
    \A k \in 1..(Len(log.appends) - 1) : log.appends[k][1] < log.appends[k + 1][1]
\* how many stored positions lie below p, and at or below p
Below(p) == Cardinality({q \in Positions : q < p})
UpTo(p) == Cardinality({q \in Positions : q <= p})

\* the answers of an array to every getAtIndex and getAtRank call
Answers(bv, rk, values) ==
    [index \in 0..bv.size, element \in OutParams, junk \in Junk |->
        getAtIndex(bv, rk, values, index, element, junk)]
RankAnswers(values) ==
    [rank \in 0..(Len(values) + 1), element \in OutParams |->
        getAtRank(values, rank, element)]

\* TRUE when the file holds the rank tables after the value list
FileHasTables(bytes) ==
    Len(bytes) > 12 + roundDivisionUp(loadSize(bytes), 8) + SizeofSizeT
                    + SizeofT * FromBytes(take(bytes,
                          12 + roundDivisionUp(loadSize(bytes), 8), SizeofSizeT))

----------------------------------------------------------------------------
(* Claims *)

\* C1: for every bit vector of length n and every i < n, rank1(i) on the
\* RankSupport built over it is the number of set bits in positions 0..i,
\* position i included.
C1_RankAgreesWithNaiveCount ==
    (phase = "ok" /\ op.name = "rank1" /\ op.arg < Len(str))
        => (op.err = "none" /\ op.val = CountOnes(str, op.arg + 1))

\* rank1(8) = 5 on a 9-bit vector: the index lies in the second byte and in
\* the second superblock
C1_Witness ==
    /\ phase = "ok" /\ file = <<>>
    /\ op.name = "rank1" /\ op.arg = 8 /\ op.val = 5

\* C2: for every i in 1..totalOnes, select1(i) is the position of the i-th
\* set bit as a left-to-right scan finds it; the bit there is set and
\* rank1(select1(i)) = i.
C2_SelectInvertsRank ==
    (phase = "ok" /\ op.name = "select1" /\ op.arg >= 1
        /\ op.arg <= rank_.totalOnes)
        => /\ op.err = "none"
           /\ op.val = NaiveSelect(str, op.arg)
           /\ op.val < bitvector_.size
           /\ get(bitvector_, op.val)
           /\ \A junk \in Junk :
                 rank1(rank_, bitvector_, op.val, junk) =
                     [err |-> "none", val |-> op.arg]

\* select1(3) = 8: the third set bit is the last bit of a 9-bit vector
C2_Witness ==
    /\ phase = "ok"
    /\ op.name = "select1" /\ op.arg = 3 /\ op.err = "none" /\ op.val = 8

\* C3 as stated: after create and a sequence of successful appends in any
\* order, for every set position p getAtIndex(p) returns true and yields the
\* value that was appended at p, and values_[k] belongs to the (k+1)-th set
\* position.
C3_ValuesFollowPositions ==
    /\ (phase = "ok" /\ op.name = "getAtIndex" /\ op.arg \in SetBits(bitvector_))
          => (op.err = "none" /\ op.ret /\ op.val = AppendedAt(op.arg))
    /\ phase = "ok" =>
          \A p \in Positions : values_[Below(p) + 1] = AppendedAt(p)

\* C3: the same after create and a sequence of successful appends made at
\* increasing positions.
C3_IncreasingOrder == Increasing => C3_ValuesFollowPositions

\* getAtIndex of the second of two positions appended in increasing order
C3_Witness ==
    /\ phase = "ok" /\ Increasing /\ Len(log.appends) = 2
    /\ op.name = "getAtIndex" /\ op.ret /\ op.arg = log.appends[2][1]
    /\ op.val = 258 /\ values_ = <<1, 258>>

C6_FailedAppendChangesNothing ==
    [][(op'.name = "append" /\ phase = "ok") =>
          /\ op'.arg >= bitvector_.size => op'.err = "OutOfRange"
          /\ op'.arg \in SetBits(bitvector_) => op'.err = "InvalidArgument"
          /\ op'.err # "none" =>
                /\ bitvector_' = bitvector_
                /\ rank_' = rank_
                /\ values_' = values_
                /\ numElem(values_') = numElem(values_)]_vars

\* a second append at an occupied position has failed
C6_Witness ==
    /\ phase = "ok" /\ numElem(values_) = 1
    /\ op.name = "append" /\ op.err = "InvalidArgument"
    /\ op.arg \in SetBits(bitvector_)

\* C7: after create and successful appends in any order, for every
\* index < size numElemAt(index) is the number of stored positions <= index.
C7_RankConsistentAfterAppend ==
    (phase = "ok" /\ op.name = "numElemAt" /\ op.arg < bitvector_.size)
        => (op.err = "none" /\ op.val = UpTo(op.arg))

\* numElemAt = 2 at the last index after appends at decreasing positions
C7_Witness ==
    /\ phase = "ok" /\ ~Increasing /\ Len(log.appends) = 2
    /\ op.name = "numElemAt" /\ op.val = 2 /\ op.arg = bitvector_.size - 1

\* C8: after create and any mix of successful and failed appends, numElem()
\* is the number of set bits and of successful appends since the last
\* create, and size() is the size passed to the last create.
C8_NumElemAndSize ==
    phase = "ok" =>
        /\ numElem(values_) = Cardinality(SetBits(bitvector_))
        /\ numElem(values_) = Len(log.appends)
        /\ bitvector_.size = log.size
        /\ op.name = "numElem" => op.val = Len(log.appends)
        /\ op.name = "size" => op.val = log.size
        /\ (op.name = "append" /\ op.err # "none") =>
              numElem(values_) = Len(log.appends)

\* numElem() = 1 on an array of size 4
C8_Witness ==
    /\ phase = "ok" /\ log.size = 4
    /\ op.name = "numElem" /\ op.val = 1

\* C9: after save(path, withTables) and load(path) the array answers every
\* getAtIndex and getAtRank call as the saved array did, with and without
\* the tables in the file; the arrays loaded from the two files answer
\* alike, and tables rebuilt on load give the rank of the naive count.
C9_SaveLoadRoundTrip ==
    (phase = "ok" /\ op.name = "load" /\ op.err = "none") =>
        /\ Answers(bitvector_, rank_, values_) =
               Answers(saved.bitvector, saved.rank, saved.values)
        /\ RankAnswers(values_) = RankAnswers(saved.values)
        /\ LET with == SparseArray_load(SparseArray_save(
                           saved.bitvector, saved.rank, saved.values, TRUE))
               without == SparseArray_load(SparseArray_save(
                           saved.bitvector, saved.rank, saved.values, FALSE))
           IN  /\ Answers(with.bitvector, with.rank, with.values) =
                      Answers(without.bitvector, without.rank, without.values)
               /\ RankAnswers(with.values) = RankAnswers(without.values)
               /\ \A i \in 0..(bitvector_.size - 1), junk \in Junk :
                      rank1(without.rank, without.bitvector, i, junk) =
                          [err |-> "none",
                           val |-> Cardinality({q \in SetBits(saved.bitvector) :
                                                    q <= i})]

\* a file without tables, loaded into a new array: two elements come back
C9_Witness ==
    /\ phase = "ok" /\ op.name = "load" /\ op.err = "none"
    /\ ~FileHasTables(file)
    /\ values_ = <<258, 1>> /\ bitvector_.size = 4

\* C10: saving a RankSupport built over bv and loading the file into a
\* RankSupport over the same bv restores superblockSize, blockSize and both
\* tables, and rank1(i) after the load is rank1(i) before the save.
C10_RankRoundTrip ==
    (phase = "ok" /\ op.name = "load") =>
        /\ op.err = "none"
        /\ rank_.superblockSize = saved.superblockSize
        /\ rank_.blockSize = saved.blockSize
        /\ rank_.superblocks = saved.superblocks
        /\ rank_.blocks = saved.blocks
        /\ \A i \in 0..(bitvector_.size - 1), junk \in Junk :
              rank1(rank_, bitvector_, i, junk) =
                  rank1(saved, bitvector_, i, junk)

\* tables of a 9-bit vector (two superblocks, five blocks) loaded back
C10_Witness ==
    /\ phase = "ok" /\ op.name = "load" /\ op.err = "none"
    /\ bitvector_.size = 9
    /\ Len(rank_.superblocks) = 2 /\ Len(rank_.blocks) = 5
    /\ rank_.superblocks[2] = 3

\* C11: select1(i) fails with InvalidArgument exactly when i = 0 or
\* i > totalOnes, select1(1) on an all-zero vector among them, and returns a
\* position of the vector for every other i.
C11_SelectArgumentCheck ==
    (phase = "ok" /\ op.name = "select1") =>
        /\ (op.err = "InvalidArgument") <=>
               (op.arg = 0 \/ op.arg > rank_.totalOnes)
        /\ (op.arg >= 1 /\ op.arg <= rank_.totalOnes) =>
               (op.err = "none" /\ op.val \in 0..(bitvector_.size - 1))
        /\ (SetBits(bitvector_) = {} /\ op.arg = 1) => op.err = "InvalidArgument"

\* select1(1) has failed on a vector of nine zeros
C11_Witness ==
    /\ phase = "ok" /\ bitvector_.size = 9 /\ SetBits(bitvector_) = {}
    /\ op.name = "select1" /\ op.arg = 1 /\ op.err = "InvalidArgument"

\* C12: for every bit vector and every i with 1 <= i < totalOnes,
\* select1(i) and select1(i + 1) both return and select1(i) < select1(i + 1).
C12_SelectMonotone ==
    (phase = "ok" /\ op.name = "select1" /\ op.arg >= 1
        /\ op.arg < rank_.totalOnes)
        => /\ op.err = "none"
           /\ \A junk \in Junk :
                 LET next == select1(rank_, bitvector_, op.arg + 1, junk)
                 IN  next.err = "none" /\ op.val < next.val

\* select1(2) = 7 on a 9-bit vector whose third set bit is the last one
C12_Witness ==
    /\ phase = "ok" /\ bitvector_.size = 9 /\ rank_.totalOnes = 3
    /\ op.name = "select1" /\ op.arg = 2 /\ op.val = 7
    /\ get(bitvector_, 8)

C14_CreateResets ==
    (phase = "ok" /\ op.name = "create") =>
        /\ bitvector_.size = op.arg
        /\ numElem(values_) = 0
        /\ \A index \in 0..(op.arg - 1), junk \in Junk :
              /\ \A element \in OutParams :
                    getAtIndex(bitvector_, rank_, values_, index, element, junk)
                        = [err |-> "none", ret |-> FALSE, val |-> element]
              /\ numElemAt(bitvector_, rank_, index, junk)
                     = [err |-> "none", val |-> 0]
        /\ [bitvector |-> bitvector_, rank |-> rank_, values |-> values_]
               = SparseArray_create(op.arg)
        /\ SparseArray_create(bitvector_.size)
               = [bitvector |-> bitvector_, rank |-> rank_, values |-> values_]

\* create(3) on an array that held two elements
C14_Witness ==
    /\ phase = "ok" /\ op.name = "create" /\ op.arg = 3 /\ op.val = 2
    /\ numElem(values_) = 0

\* C15: after set(i, v) with i in range the bit at i reads as v, every other
\* bit reads as before the call, those of the same byte included, and the
\* size is unchanged.
C15_SetChangesOneBit ==
    [][(phase = "bits" /\ op'.name = "set" /\ op'.err = "none") =>
          /\ bitvector_'.size = bitvector_.size
          /\ Len(bitvector_'.data) = Len(bitvector_.data)
          /\ get(bitvector_', op'.arg) = (op'.val = 1)
          /\ at(bitvector_', op'.arg) = [err |-> "none", ret |-> op'.val = 1]
          /\ \A j \in 0..(bitvector_.size - 1) :
                j # op'.arg => get(bitvector_', j) = get(bitvector_, j)]_vars

\* set(3, false) between two set bits of the same byte
C15_Witness ==
    /\ phase = "bits" /\ op.name = "set" /\ op.err = "none"
    /\ op.arg = 3 /\ op.val = 0
    /\ SetBits(bitvector_) = {2, 4, 8}

\* C16: the bit vector built from a string s of '0' and '1', of any length,
\* has size |s| and bit(i) = (s[i] = '1') for every i < |s|.
C16_StringConstructor ==
    (phase = "bits" /\ op.name = "BitVector(string)") =>
        /\ bitvector_.size = Len(str)
        /\ \A i \in 0..(Len(str) - 1) :
              /\ get(bitvector_, i) = (str[i + 1] = "1")
              /\ at(bitvector_, i) = [err |-> "none", ret |-> str[i + 1] = "1"]

\* a vector built from nine characters, the second and the last a '1'
C16_Witness ==
    /\ phase = "bits" /\ op.name = "BitVector(string)"
    /\ str = <<"0", "1", "0", "0", "0", "0", "0", "0", "1">>
    /\ SetBits(bitvector_) = {1, 8}

\* C17: after construction, by size or from a string, and any sequence of
\* in-range set calls, popcount() is the number of indices below size whose
\* bit is set, and the bits past size in the last byte are zero.
C17_PopcountCountsSetBits ==
    phase = "bits" =>
        /\ popcount(bitvector_) = Cardinality(SetBits(bitvector_))
        /\ op.name = "popcount" => op.val = Cardinality(SetBits(bitvector_))
        /\ \A k \in bitvector_.size..(8 * Len(bitvector_.data) - 1) :
              ~get(bitvector_, k)

\* popcount() = 2 on a vector of nine bits after set calls
C17_Witness ==
    /\ phase = "bits" /\ str = <<>> /\ bitvector_.size = 9
    /\ op.name = "popcount" /\ op.val = 2 /\ get(bitvector_, 8)

\* C18 as stated: for every start < size and every len <= 32 with
\* start + len <= size, popcount(start, len) returns the number of set bits
\* in positions start..start+len-1, whatever the offset of start in its byte.
C18_RangedPopcount ==
    (phase = "bits" /\ op.name = "popcountRange"
        /\ op.arg[1] < bitvector_.size /\ op.arg[2] <= WordBits
        /\ op.arg[1] + op.arg[2] <= bitvector_.size)
        => /\ op.err = "none"
           /\ op.val = Cardinality({q \in SetBits(bitvector_) :
                                       /\ op.arg[1] <= q
                                       /\ q < op.arg[1] + op.arg[2]})

\* C19: at(i) fails with OutOfRange exactly when i >= size; at(size) fails,
\* at(size - 1) returns, and what it returns is the bit get(size - 1) reads.
C19_AtChecksRange ==
    (phase = "bits" /\ op.name = "at") =>
        /\ (op.err = "OutOfRange") <=> (op.arg >= bitvector_.size)
        /\ op.arg < bitvector_.size =>
               (op.err = "none" /\ op.ret = get(bitvector_, op.arg))
        /\ at(bitvector_, bitvector_.size).err = "OutOfRange"
        /\ bitvector_.size >= 1 =>
               at(bitvector_, bitvector_.size - 1) =
                   [err |-> "none", ret |-> get(bitvector_, bitvector_.size - 1)]

\* at(8) has returned the last bit of a vector of nine bits
C19_Witness ==
    /\ phase = "bits" /\ bitvector_.size = 9
    /\ op.name = "at" /\ op.arg = 8 /\ op.err = "none" /\ op.ret

\* the answers of the example vector: rank1 at 0, 3, 7 and 15, totalOnes,
\* select1 of 1, 4 and 8, as the calls return them and as the state gives them
ExampleAnswers(r0, r3, r7, r15, ones, s1, s4, s8) ==
    (phase = "ok" /\ str = EXAMPLE_STR) =>
        /\ rank_.totalOnes = ones
        /\ \A junk \in Junk :
              /\ rank1(rank_, bitvector_, 0, junk) = [err |-> "none", val |-> r0]
              /\ rank1(rank_, bitvector_, 3, junk) = [err |-> "none", val |-> r3]
              /\ rank1(rank_, bitvector_, 7, junk) = [err |-> "none", val |-> r7]
              /\ rank1(rank_, bitvector_, 15, junk) = [err |-> "none", val |-> r15]
              /\ select1(rank_, bitvector_, 1, junk) = [err |-> "none", val |-> s1]
              /\ select1(rank_, bitvector_, 4, junk) = [err |-> "none", val |-> s4]
              /\ select1(rank_, bitvector_, 8, junk) = [err |-> "none", val |-> s8]
        /\ (op.name = "rank1" /\ op.arg = 3) => op.val = r3
        /\ (op.name = "rank1" /\ op.arg = 7) => op.val = r7
        /\ (op.name = "select1" /\ op.arg = 8) => op.val = s8

\* C20 as stated: for bv = "1001011101001010", rank1(0) = 1, rank1(3) = 1,
\* rank1(7) = 4, rank1(15) = 8, totalOnes = 8, select1(1) = 0, select1(4) = 6
\* and select1(8) = 13.
C20_ExampleAsStated == ExampleAnswers(1, 1, 4, 8, 8, 0, 6, 13)

\* C20: for bv = "1001011101001010", rank1(0) = 1, rank1(3) = 2,
\* rank1(7) = 5, rank1(15) = 8, totalOnes = 8, select1(1) = 0, select1(4) = 6
\* and select1(8) = 14.
C20_Example == ExampleAnswers(1, 2, 5, 8, 8, 0, 6, 14)

\* select1(8) = 14 on the example vector
C20_Witness ==
    /\ phase = "ok" /\ str = EXAMPLE_STR
    /\ op.name = "select1" /\ op.arg = 8 /\ op.err = "none" /\ op.val = 14

\* the 4-byte word of the file at byte offset pos
WordAt(pos) == FromBytes(take(file, pos, SizeofU32))

\* C21 as stated: RankSupport::save writes the magic 0xFEEDBEEF, the 4-byte
\* superblockSize, the 4-byte blockSize, then the superblocks as an 8-byte
\* length L1 and L1 4-byte entries, then the blocks as an 8-byte length L2
\* and L2 4-byte entries.
C21_ContainerLayout ==
    (phase = "ok" /\ op.name = "save") =>
        LET L1 == Len(rank_.superblocks)
            L2 == Len(rank_.blocks)
        IN  /\ Len(file) = 12 + SizeofSizeT + SizeofU32 * L1
                                + SizeofSizeT + SizeofU32 * L2
            /\ take(file, 0, SizeofU32) = RankMagic
            /\ WordAt(4) = rank_.superblockSize
            /\ WordAt(8) = rank_.blockSize
            /\ FromBytes(take(file, 12, SizeofSizeT)) = L1
            /\ \A k \in 1..L1 :
                  WordAt(12 + SizeofSizeT + SizeofU32 * (k - 1))
                      = rank_.superblocks[k]
            /\ FromBytes(take(file, 12 + SizeofSizeT + SizeofU32 * L1,
                               SizeofSizeT)) = L2
            /\ \A k \in 1..L2 :
                  WordAt(12 + 2 * SizeofSizeT + SizeofU32 * (L1 + k - 1))
                      = rank_.blocks[k]

\* C21: RankSupport::save writes the magic 0xFEEDBEEF, the 4-byte
\* superblockSize, the 4-byte blockSize, the 4-byte number of superblocks L1,
\* the 4-byte number of blocks L2, then the L1 4-byte superblock entries and
\* the L2 4-byte block entries; load reads this layout back.
C21_CountsThenTables ==
    /\ (phase = "ok" /\ op.name = "save") =>
          LET L1 == Len(rank_.superblocks)
              L2 == Len(rank_.blocks)
          IN  /\ Len(file) = 20 + SizeofU32 * (L1 + L2)
              /\ take(file, 0, SizeofU32) = RankMagic
              /\ WordAt(4) = rank_.superblockSize
              /\ WordAt(8) = rank_.blockSize
              /\ WordAt(12) = L1
              /\ WordAt(16) = L2
              /\ \A k \in 1..L1 :
                    WordAt(20 + SizeofU32 * (k - 1)) = rank_.superblocks[k]
              /\ \A k \in 1..L2 :
                    WordAt(20 + SizeofU32 * (L1 + k - 1)) = rank_.blocks[k]
    /\ (phase = "ok" /\ op.name = "load") =>
          /\ op.err = "none"
          /\ rank_.superblockSize = WordAt(4)
          /\ rank_.blockSize = WordAt(8)
          /\ Len(rank_.superblocks) = WordAt(12)
          /\ Len(rank_.blocks) = WordAt(16)
          /\ \A k \in 1..Len(rank_.superblocks) :
                rank_.superblocks[k] = WordAt(20 + SizeofU32 * (k - 1))
          /\ \A k \in 1..Len(rank_.blocks) :
                rank_.blocks[k] =
                    WordAt(20 + SizeofU32 * (Len(rank_.superblocks) + k - 1))

\* the 48 bytes written for a 9-bit vector: two superblocks, five blocks
C21_Witness ==
    /\ phase = "ok" /\ op.name = "save" /\ bitvector_.size = 9
    /\ Len(file) = 48 /\ WordAt(12) = 2 /\ WordAt(16) = 5
    /\ WordAt(24) = 3

RECURSIVE ArrayLengthDiffers(_, _, _)
ArrayLengthDiffers(from, to, data) ==
    IF from.k = "trivial" THEN FALSE
    ELSE \/ from.k = "array" /\ from.n # to.n
         \/ \E j \in 1..Len(data) :
                ArrayLengthDiffers(from.of, to.of, data[j])

\* C23: deserialize(serialize(v)) gives v back and reads the whole file,
\* for a trivial value and for a container of containers, whatever size
\* the containers read into had: a std::vector is resized, and a
\* std::array of another length makes deserialize fail with Corrupt.
C23_RoundTrip ==
    (phase = "serial" /\ op.name = "deserialize") =>
        IF ArrayLengthDiffers(saved.type, log.type, saved.data)
        THEN op.err = "Corrupt"
        ELSE /\ op.err = "none"
             /\ values_ = saved.data
             /\ op.val = Len(file)

\* two vectors, of two bytes and of none, read into one vector that held
\* one byte
C23_Witness ==
    /\ phase = "serial" /\ op.name = "deserialize" /\ op.err = "none"
    /\ saved.type = Vector(Vector(U8))
    /\ saved.data = << <<0, 255>>, <<>> >>
    /\ log.data = << <<255>> >>
    /\ values_ = << <<0, 255>>, <<>> >>

\* the number of '1' of str at positions lo..hi-1
OnesBetween(lo, hi) == CountOnes(str, hi) - CountOnes(str, lo)

\* C24: after construction over n bits with superblock size s and block
\* size b, superblocks has ceil(n/s) entries and superblocks[k] is the
\* number of set bits before k*s; blocks has ceil(n/b) entries and blocks[j]
\* is the number of set bits from the start of the superblock that holds
\* block j up to j*b; superblocks[0] = blocks[0] = 0 and totalOnes is the
\* number of set bits of the vector.
C24_TablesAfterConstruction ==
    (phase = "ok" /\ rank_.superblockSize >= 1 /\ rank_.blockSize >= 1) =>
        LET n == bitvector_.size
            s == rank_.superblockSize
            b == rank_.blockSize
        IN  /\ Len(rank_.superblocks) = (n + s - 1) \div s
            /\ Len(rank_.blocks) = (n + b - 1) \div b
            /\ \A k \in 0..(Len(rank_.superblocks) - 1) :
                  rank_.superblocks[k + 1] = OnesBetween(0, k * s)
            /\ \A j \in 0..(Len(rank_.blocks) - 1) :
                  rank_.blocks[j + 1] =
                      OnesBetween(((j * b) \div s) * s, j * b)
            /\ rank_.superblocks[1] = 0
            /\ rank_.blocks[1] = 0
            /\ rank_.totalOnes = OnesBetween(0, n)

\* nine set bits: two superblocks of 8 bits, five blocks of 2 bits, and the
\* block sum starts again at the second superblock
C24_Witness ==
    /\ phase = "ok" /\ op.name = "RankSupport"
    /\ bitvector_.size = 9
    /\ rank_.superblocks = <<0, 8>>
    /\ rank_.blocks = <<0, 2, 4, 6, 0>>
    /\ rank_.totalOnes = 9

\* C25: for every bit-vector length n >= 1 the constructor leaves a
\* superblock size and a block size of at least 1, and so divides by
\* neither.
C25_SizesAtLeastOne ==
    op.name = "RankSupport" =>
        /\ op.err = "none"
        /\ rank_.superblockSize >= 1
        /\ rank_.blockSize >= 1

\* the tables and the total are those of a RankSupport built anew
TablesCorrect == rank_ = RankSupport(bitvector_)

\* C26 as stated: the partial rebuild of append leaves the rank tables
\* correct exactly when the positions were appended in non-decreasing
\* order; after an append below an earlier position some entry is stale.
C26_CorrectIffOrdered ==
    (phase = "ok" /\ op.name = "append" /\ op.err = "none") =>
        (TablesCorrect <=> Increasing)

\* C26: the partial rebuild of append leaves the rank tables correct
\* whatever the order of the appended positions: after every successful
\* append the tables and totalOnes are those a new RankSupport over the
\* vector would hold, and rank1 counts the stored positions up to each
\* index.
C26_CorrectInAnyOrder ==
    (phase = "ok" /\ op.name = "append" /\ op.err = "none") =>
        /\ TablesCorrect
        /\ \A index \in 0..(bitvector_.size - 1), junk \in Junk :
              rank1(rank_, bitvector_, index, junk) =
                  [err |-> "none", val |-> UpTo(index)]

\* position 3 appended first, position 0 after it
C26_Witness ==
    /\ phase = "ok" /\ op.name = "append" /\ op.err = "none"
    /\ ~Increasing
    /\ Len(log.appends) = 2
    /\ log.appends[1][1] = 3 /\ log.appends[2][1] = 0
    /\ rank_.totalOnes = 2

\* C27: when the tables are those of the vector and one bit p is flipped,
\* from 0 to 1 or from 1 to 0, buildTables(p) leaves superblocks, blocks and
\* totalOnes as a RankSupport built anew over the changed vector holds
\* them, and assigns no entry of a superblock before the one that holds p:
\* those entries keep their values.
C27_RebuildAfterFlip ==
    [][(/\ phase = "ok" /\ op'.name = "flip"
        /\ rank_.superblockSize >= 1 /\ rank_.blockSize >= 1
        /\ rank_ = RankSupport(bitvector_)) =>
         LET p == op'.arg
             s == rank_.superblockSize
             b == rank_.blockSize
         IN  /\ get(bitvector_', p) # get(bitvector_, p)
             /\ \A q \in 0..(bitvector_.size - 1) :
                   q # p => get(bitvector_', q) = get(bitvector_, q)
             /\ rank_' = RankSupport(bitvector_')
             /\ \A w \in buildTablesWrites(rank_, bitvector_', p) :
                   /\ w[1] = "superblocks" => w[2] >= p \div s
                   /\ w[1] = "blocks" => w[2] * b >= (p \div s) * s
             /\ \A k \in 0..((p \div s) - 1) :
                   rank_'.superblocks[k + 1] = rank_.superblocks[k + 1]
             /\ \A j \in 0..(Len(rank_.blocks) - 1) :
                   j * b < (p \div s) * s =>
                       rank_'.blocks[j + 1] = rank_.blocks[j + 1]
      ]_vars

\* bit 8 of nine set bits cleared: the rebuild starts at the second
\* superblock and the total falls to 8
C27_Witness ==
    /\ phase = "ok" /\ op.name = "flip" /\ op.arg = 8 /\ op.val = 0
    /\ bitvector_.size = 9
    /\ rank_.superblocks = <<0, 8>>
    /\ rank_.totalOnes = 8
    /\ buildTablesWrites(rank_, bitvector_, 8) =
           {<<"superblocks", 1>>, <<"blocks", 4>>}

\* C28: the 32-bit load that rank1(i) makes for its block reads only bytes
\* of the buffer, those with index below ceil(n / 8), on every vector of
\* n >= 3 bits and for every i < n.
C28_LoadInsideBuffer ==
    (/\ phase = "ok" /\ op.name = "rank1" /\ op.err = "none"
     /\ bitvector_.size >= 3) =>
        \A k \in rank1Loads(rank_, bitvector_, op.arg) :
            k < roundDivisionUp(bitvector_.size, 8) /\ k < Len(bitvector_.data)

\* C29: on tables that are those of the vector and for 1 <= i <= totalOnes,
\* the search of select1 ends by returning a position: it does not fall out
\* of its loop (Internal), it probes rank1 and the vector only at indices
\* below size, and it never reaches upper = mid - 1 with mid = 0.
C29_SearchStaysInside ==
    (/\ phase = "ok" /\ op.name = "select1"
     /\ 1 <= op.arg /\ op.arg <= rank_.totalOnes
     /\ rank_.superblockSize >= 1 /\ rank_.blockSize >= 1) =>
        /\ op.err = "none"
        /\ \A junk \in Junk :
              LET r == select1(rank_, bitvector_, op.arg, junk)
                  probes == select1Probes(rank_, bitvector_, op.arg, junk)
              IN  /\ r.err = "none"
                  /\ r.val < bitvector_.size
                  /\ probes # <<>>
                  /\ probes[Len(probes)].mid = r.val
                  /\ \A k \in 1..Len(probes) :
                        /\ probes[k].mid < bitvector_.size
                        /\ ~probes[k].wraps

\* the only set bit is the last of nine: the search probes 4, 7 and 8
C29_Witness ==
    /\ phase = "ok" /\ op.name = "select1" /\ op.arg = 1 /\ op.val = 8
    /\ bitvector_.size = 9
    /\ \E junk \in Junk :
          select1Probes(rank_, bitvector_, 1, junk) =
              <<[mid |-> 4, wraps |-> FALSE], [mid |-> 7, wraps |-> FALSE],
                [mid |-> 8, wraps |-> FALSE]>>

\* C30: for every n >= 3 the superblock size is an exact multiple of the
\* block size and larger than it, so every superblock starts where a block
\* starts and the block that holds a position lies inside the superblock
\* that holds it.
C30_BlocksNestInSuperblocks ==
    (phase = "sizes" /\ bitvector_.size >= 3) =>
        LET s == rank_.superblockSize
            b == rank_.blockSize
        IN  /\ b >= 1
            /\ b < s
            /\ s % b = 0
            /\ \A k \in 0..((bitvector_.size - 1) \div s) : (k * s) % b = 0
            /\ \A i \in 0..(bitvector_.size - 1) :
                  /\ (i \div s) * s <= (i \div b) * b
                  /\ (i \div b) * b + b <= (i \div s) * s + s

\* 1000 bits: log2(1024) = 10, so superblocks of 50 bits and blocks of 5;
\* for 24 bits log2(32) = 5 gives 5 * 5 / 2 = 12 and 5 / 2 = 2
C30_Witness ==
    /\ phase = "sizes" /\ op.name = "RankSupport"
    /\ bitvector_.size = 1000
    /\ rank_.superblockSize = 50 /\ rank_.blockSize = 5
    /\ superblockSizeFor(24) = 12 /\ blockSizeFor(24) = 2

====
